---- MODULE Spec2Model ----
(***************************************************************************)
(* Yoga pose API (Dev-AryanRaj/Posture-Check, backend/app).                *)
(*                                                                         *)
(* The model covers the pose engine (pose_engine.py: get_all_angles,       *)
(* compare_pose, auto_detect_pose, analyze_image) and the HTTP handlers    *)
(* over the attempt store (main.py: list_poses, analyze_pose, history;     *)
(* models.py: PoseAttempt).                                                *)
(*                                                                         *)
(* Abstractions, all on the side of the external collaborators:            *)
(*  - angles are whole degrees; a score (a float mean) is the rational     *)
(*    sum/count in lowest terms, which is one-to-one with the float value  *)
(*    for the magnitudes used here;                                        *)
(*  - the pose estimator and calculate_angle are a black box: an uploaded  *)
(*    image carries what they give back, per joint an angle, a degenerate  *)
(*    triple (calculate_angle returns None) or a failed landmark lookup;   *)
(*  - Python's None is the string "None".                                  *)
(***************************************************************************)
EXTENDS Integers, Sequences, FiniteSets, TLC

VARIABLES
    ANGLE_DATA,   \* pose_engine.ANGLE_DATA: the catalog, in file order
    db,           \* the pose_attempts table, in insertion (id) order
    now,          \* the database server's clock, read by func.now()
    req,          \* the HTTP request being answered
    resp,         \* the HTTP response to req
    call          \* the last direct call of a pose_engine function

vars == <<ANGLE_DATA, db, now, req, resp, call>>

None == "None"

-----------------------------------------------------------------------------
(* Bounds of the model *)

\* longest measured-angles mapping handed directly to an engine function
MaxAngles == 2
\* rows the store may hold in Spec
MaxDb == 2
\* rows the store may hold in SpecHist (more than the history limit)
MaxHistDb == 51
\* largest value of the database clock
MaxClock == 1

-----------------------------------------------------------------------------
(* Static tables *)

\* pose_engine.JOINTS, in insertion order
JOINTS ==
    << "left_knee", "right_knee", "left_elbow", "right_elbow", "left_shoulder",
       "right_shoulder", "left_hip", "right_hip", "neck", "spine" >>

JointSet == {JOINTS[i] : i \in 1..Len(JOINTS)}

Range(mn, mx) == [angle_min |-> mn, angle_max |-> mx]

\* Catalogs angles.json may hold: pose name -> joint -> {angle_min, angle_max},
\* in file order. The ranges are those of the reference scenarios.
CatalogA ==
    << [name |-> "warrior",
        data |-> ("left_knee" :> Range(160, 180) @@ "right_knee" :> Range(80, 100))],
       [name |-> "mountain",
        data |-> ("left_knee" :> Range(160, 180))],
       [name |-> "chair",
        data |-> ("right_knee" :> Range(80, 100) @@ "left_elbow" :> Range(80, 100))] >>

CatalogB ==
    << [name |-> "mountain",
        data |-> ("left_knee" :> Range(160, 180))],
       [name |-> "warrior",
        data |-> ("left_knee" :> Range(160, 180) @@ "right_knee" :> Range(80, 100))] >>

Catalogs == {CatalogA, CatalogB}

\* POSE_LIST = list(ANGLE_DATA.keys())
POSE_LIST == [i \in 1..Len(ANGLE_DATA) |-> ANGLE_DATA[i].name]

PoseNames == {ANGLE_DATA[i].name : i \in 1..Len(ANGLE_DATA)}

\* ANGLE_DATA[pose_name], for a pose_name that is a key
DataOf(pose_name) ==
    ANGLE_DATA[CHOOSE i \in 1..Len(ANGLE_DATA) : ANGLE_DATA[i].name = pose_name].data

-----------------------------------------------------------------------------
(* Numbers and text *)

\* Then(v, Op) is Op(v) with v evaluated once: v is bound as a value, the way
\* the program binds a local variable.
Then(v, Op(_)) == CHOOSE y \in {Op(x) : x \in {v}} : TRUE

RECURSIVE GCD(_, _)
GCD(a, b) == IF b = 0 THEN a ELSE GCD(b, a % b)

\* a float that is the quotient n/d of two naturals, d > 0
Rat(n, d) == LET g == GCD(n, d) IN [num |-> n \div g, den |-> d \div g]

RatLt(a, b) == a.num * b.den < b.num * a.den

RatLeq(a, b) == a.num * b.den <= b.num * a.den

RECURSIVE Sum(_)
Sum(s) == IF s = <<>> THEN 0 ELSE Head(s) + Sum(Tail(s))

\* float(np.mean(diffs)), diffs non-empty
Mean(diffs) == Rat(Sum(diffs), Len(diffs))

\* joint.replace('_', ' ').title()
Title(joint) ==
    CASE joint = "left_knee" -> "Left Knee"
      [] joint = "right_knee" -> "Right Knee"
      [] joint = "left_elbow" -> "Left Elbow"
      [] joint = "right_elbow" -> "Right Elbow"
      [] joint = "left_shoulder" -> "Left Shoulder"
      [] joint = "right_shoulder" -> "Right Shoulder"
      [] joint = "left_hip" -> "Left Hip"
      [] joint = "right_hip" -> "Right Hip"
      [] joint = "neck" -> "Neck"
      [] joint = "spine" -> "Spine"

\* f"{diff:.1f}" of a whole number of degrees
Fmt1(diff) == ToString(diff) \o ".0"

\* f"{title}: {verb} by {diff:.1f}"
HintText(joint, verb, diff) ==
    Title(joint) \o ": " \o verb \o " by " \o Fmt1(diff)

RECURSIVE Join(_, _)
\* sep.join(strs)
Join(sep, strs) ==
    IF strs = <<>> THEN ""
    ELSE IF Len(strs) = 1 THEN strs[1]
    ELSE strs[1] \o sep \o Join(sep, Tail(strs))

-----------------------------------------------------------------------------
(* pose_engine.py *)

\* One landmark triple as calculate_angle sees it: an angle, a degenerate
\* triple (denom == 0, the result is None) or a landmark lookup that raises.
Angle(v) == [kind |-> "angle", ang |-> v]
Degenerate == [kind |-> "degenerate", ang |-> 0]
Raises == [kind |-> "exception", ang |-> 0]

RECURSIVE get_all_angles_from(_, _, _)
get_all_angles_from(landmarks, i, angles) ==
    IF i > Len(JOINTS) THEN angles
    ELSE LET j == JOINTS[i]
             out == landmarks[j]
         IN IF out.kind = "angle"
            THEN get_all_angles_from(landmarks, i + 1,
                                     Append(angles, [joint |-> j, val |-> out.ang]))
            ELSE get_all_angles_from(landmarks, i + 1, angles)

\* A measured-angles mapping is the sequence of its items, in insertion order.
get_all_angles(landmarks) == get_all_angles_from(landmarks, 1, <<>>)

\* joint_deviation with the range's bounds taken as outside it
joint_deviation_open(joint, val, mn, mx) ==
    IF val <= mn
    THEN [diff |-> mn - val, hint |-> <<HintText(joint, "increase", mn - val)>>]
    ELSE IF val >= mx
    THEN [diff |-> val - mx, hint |-> <<HintText(joint, "decrease", val - mx)>>]
    ELSE [diff |-> 0, hint |-> <<>>]

\* the branch of compare_pose's loop body for a joint of the reference data
joint_deviation(joint, val, mn, mx) ==
    IF val < mn
    THEN [diff |-> mn - val, hint |-> <<HintText(joint, "increase", mn - val)>>]
    ELSE IF val > mx
    THEN [diff |-> val - mx, hint |-> <<HintText(joint, "decrease", val - mx)>>]
    ELSE [diff |-> 0, hint |-> <<>>]

RECURSIVE compare_loop(_, _, _, _, _)
compare_loop(user_angles, data, i, diffs, hints) ==
    IF i > Len(user_angles) THEN [diffs |-> diffs, hints |-> hints]
    ELSE LET joint == user_angles[i].joint
             val == user_angles[i].val
         IN IF joint \notin DOMAIN data
            THEN compare_loop(user_angles, data, i + 1, diffs, hints)
            ELSE LET d == joint_deviation(joint, val, data[joint].angle_min,
                                          data[joint].angle_max)
                 IN compare_loop(user_angles, data, i + 1,
                                 Append(diffs, d.diff), hints \o d.hint)

\* the score when no joint was compared
NoJointScore == 999

\* score_of with the joints inside their range left out of the mean
score_of_nonzero(diffs) ==
    Then(SelectSeq(diffs, LAMBDA x : x # 0),
         LAMBDA nz : IF nz # <<>> THEN Mean(nz) ELSE Rat(NoJointScore, 1))

\* score = float(np.mean(diffs)) if diffs else 999.0
score_of(diffs) == IF diffs # <<>> THEN Mean(diffs) ELSE Rat(NoJointScore, 1)

\* (score, hints), with the diffs list as it stands at the return; an unknown
\* pose_name raises KeyError at ANGLE_DATA[pose_name]
compare_pose(user_angles, pose_name) ==
    IF pose_name \notin PoseNames THEN [raised |-> "KeyError"]
    ELSE Then(compare_loop(user_angles, DataOf(pose_name), 1, <<>>, <<>>),
              LAMBDA r : [raised |-> None, score |-> score_of(r.diffs),
                          hints |-> r.hints, diffs |-> r.diffs])

\* best_score before the first pose is scored
InitialBestScore == 999

\* if score < best_score
improves(score, best_score) == RatLt(score, best_score)

RECURSIVE auto_loop(_, _, _, _)
auto_loop(user_angles, i, best_pose, best_score) ==
    IF i > Len(POSE_LIST) THEN [pose |-> best_pose, score |-> best_score]
    ELSE Then(compare_pose(user_angles, POSE_LIST[i]).score,
              LAMBDA score :
                  IF improves(score, best_score)
                  THEN auto_loop(user_angles, i + 1, POSE_LIST[i], score)
                  ELSE auto_loop(user_angles, i + 1, best_pose, best_score))

auto_detect_pose(user_angles) ==
    auto_loop(user_angles, 1, None, Rat(InitialBestScore, 1))

\* pose_name, score = auto_detect_pose(user_angles), or
\* score, _ = compare_pose(user_angles, pose_name)
resolve_pose(user_angles, pose_name) ==
    IF pose_name = None
    THEN Then(auto_detect_pose(user_angles),
              LAMBDA a : [raised |-> None, pose_name |-> a.pose, score |-> a.score])
    ELSE Then(compare_pose(user_angles, pose_name),
              LAMBDA c : IF c.raised # None THEN [raised |-> c.raised]
                         ELSE [raised |-> None, pose_name |-> pose_name,
                               score |-> c.score])

\* _, hints = compare_pose(user_angles, pose_name); return ...
with_hints(user_angles, resolved) ==
    Then(compare_pose(user_angles, resolved.pose_name),
         LAMBDA again : IF again.raised # None THEN [raised |-> again.raised]
                        ELSE [raised |-> None,
                              pose_name |-> resolved.pose_name,
                              score |-> resolved.score,
                              hints |-> again.hints,
                              angles |-> user_angles])

\* results: what pose_model.process gives back, [detected, landmark]
analyze_image(results, pose_name) ==
    IF ~results.detected
    THEN [raised |-> "ValueError", detail |-> "No pose detected"]
    ELSE Then(get_all_angles(results.landmark),
              LAMBDA user_angles :
                  Then(resolve_pose(user_angles, pose_name),
                       LAMBDA resolved :
                           IF resolved.raised # None THEN [raised |-> resolved.raised]
                           ELSE with_hints(user_angles, resolved)))

-----------------------------------------------------------------------------
(* main.py and models.py *)

\* success=score < 10.0
SuccessThreshold == 10

\* success_of with the threshold itself counted a success
success_of_leq(score) == RatLeq(score, Rat(SuccessThreshold, 1))

success_of(score) == RatLt(score, Rat(SuccessThreshold, 1))

\* effective_pose_name without the test of the mode
effective_pose_name_any_mode(mode, pose_name) ==
    IF pose_name # None /\ pose_name # "" THEN pose_name ELSE None

\* pose_name if mode == "manual" and pose_name else None
effective_pose_name(mode, pose_name) ==
    IF mode = "manual" /\ pose_name # None /\ pose_name # "" THEN pose_name ELSE None

\* new_attempt with the hints joined by a comma
new_attempt_comma(d, t, pose_name, score, hints) ==
    [id |-> Len(d) + 1,
     pose_name |-> pose_name,
     score |-> score,
     success |-> success_of(score),
     hints |-> Join(", ", hints),
     created_at |-> t]

\* PoseAttempt(...); db.add; db.commit: the row as stored, id and created_at
\* assigned by the database
new_attempt(d, t, pose_name, score, hints) ==
    [id |-> Len(d) + 1,
     pose_name |-> pose_name,
     score |-> score,
     success |-> success_of(score),
     hints |-> Join(" | ", hints),
     created_at |-> t]

\* analyze_pose without the except clause: ValueError escapes the handler
analyze_pose_uncaught(image, mode, pose_name, d, t) ==
    IF ~image.decoded
    THEN [resp |-> [status |-> 400, body |-> [detail |-> "Invalid image"]], db |-> d]
    ELSE Then(analyze_image(image.results, effective_pose_name(mode, pose_name)),
              LAMBDA r :
                  IF r.raised # None
                  THEN [resp |-> [status |-> 500, body |-> [detail |-> r.raised]],
                        db |-> d]
                  ELSE [resp |-> [status |-> 200,
                                  body |-> [pose_name |-> r.pose_name,
                                            score |-> r.score,
                                            hints |-> r.hints,
                                            angles |-> r.angles]],
                        db |-> Append(d, new_attempt(d, t, r.pose_name, r.score,
                                                     r.hints))])

\* POST /api/analyze on store d at clock t: the response and the store after
analyze_pose(image, mode, pose_name, d, t) ==
    IF ~image.decoded
    THEN [resp |-> [status |-> 400, body |-> [detail |-> "Invalid image"]], db |-> d]
    ELSE Then(analyze_image(image.results, effective_pose_name(mode, pose_name)),
              LAMBDA r :
                  IF r.raised = "ValueError"
                  THEN [resp |-> [status |-> 400, body |-> [detail |-> r.detail]],
                        db |-> d]
                  ELSE IF r.raised # None
                  THEN [resp |-> [status |-> 500, body |-> [detail |-> r.raised]],
                        db |-> d]
                  ELSE [resp |-> [status |-> 200,
                                  body |-> [pose_name |-> r.pose_name,
                                            score |-> r.score,
                                            hints |-> r.hints,
                                            angles |-> r.angles]],
                        db |-> Append(d, new_attempt(d, t, r.pose_name, r.score,
                                                     r.hints))])

Reverse(s) == [i \in 1..Len(s) |-> s[Len(s) + 1 - i]]

\* Orders the database may give rows of equal created_at: SQL leaves it open;
\* the model draws it from rowid order and its reverse.
TieOrders == {"rowid", "reverse"}

RECURSIVE rows_from(_, _, _)
rows_from(d, t, tie) ==
    IF t < 0 THEN <<>>
    ELSE LET same == SelectSeq(d, LAMBDA r : r.created_at = t)
         IN (IF tie = "rowid" THEN same ELSE Reverse(same)) \o rows_from(d, t - 1, tie)

\* .order_by(PoseAttempt.created_at.desc())
order_by_created_at_desc(d, tie) ==
    IF d = <<>> THEN <<>>
    ELSE LET latest == CHOOSE t \in {d[i].created_at : i \in 1..Len(d)} :
                           \A i \in 1..Len(d) : d[i].created_at <= t
         IN rows_from(d, latest, tie)

\* .limit(50)
HistoryLimit == 50

\* limit without the cap
limit_all(rows) == rows

limit(rows) ==
    Then(rows, LAMBDA all :
        SubSeq(all, 1, IF Len(all) < HistoryLimit THEN Len(all) ELSE HistoryLimit))

\* schemas.PoseAttemptOut
PoseAttemptOut(row) ==
    [id |-> row.id, pose_name |-> row.pose_name, score |-> row.score,
     success |-> row.success, hints |-> row.hints]

\* GET /api/history
history(d, tie) ==
    Then(limit(order_by_created_at_desc(d, tie)),
         LAMBDA attempts : [i \in 1..Len(attempts) |-> PoseAttemptOut(attempts[i])])

\* GET /api/poses
list_poses == POSE_LIST

-----------------------------------------------------------------------------
(* Inputs *)

InputJoints == {"left_knee", "right_knee", "left_elbow", "neck"}

AngleValues == {70, 80, 90, 100, 110, 150}

Items == [joint : InputJoints, val : AngleValues]

RECURSIVE Mappings(_)
\* the measured-angles mappings of at most n items
Mappings(n) ==
    IF n = 0 THEN {<<>>}
    ELSE LET prev == Mappings(n - 1)
             longest == {m \in prev : Len(m) = n - 1}
         IN prev \cup
            {Append(x[1], x[2]) :
                x \in {y \in longest \X Items :
                          \A k \in 1..Len(y[1]) : y[1][k].joint # y[2].joint}}

AngleInputs == Mappings(MaxAngles)

\* pose names a caller may pass: absent, empty, catalog names, an unknown name
PoseNameInputs == {None, "", "mountain", "lotus"}

Landmarks(lk, rk, nk) ==
    [j \in JointSet |->
        IF j = "left_knee" THEN lk
        ELSE IF j = "right_knee" THEN rk
        ELSE IF j = "neck" THEN nk
        ELSE Degenerate]

Outcomes == {Angle(70), Angle(90), Angle(150), Angle(170), Degenerate, Raises}

\* landmark sets handed directly to analyze_image
LandmarkInputs == {Landmarks(a, b, c) : a \in Outcomes, b \in Outcomes, c \in {Degenerate, Angle(90)}}

Image(decoded, detected, landmark) ==
    [decoded |-> decoded, results |-> [detected |-> detected, landmark |-> landmark]]

NoLandmarks == Landmarks(Degenerate, Degenerate, Degenerate)

\* uploads: an undecodable file, a picture without a body, pictures of a body
UploadImages ==
    {Image(FALSE, FALSE, NoLandmarks), Image(TRUE, FALSE, NoLandmarks)} \cup
    {Image(TRUE, TRUE, l) :
        l \in {NoLandmarks,
               Landmarks(Angle(170), Angle(70), Raises),
               Landmarks(Angle(150), Angle(110), Degenerate),
               Landmarks(Degenerate, Angle(90), Angle(90))}}

Modes == {"auto", "manual", "guided"}

\* the picture every request of SpecHist uploads
BulkImage == Image(TRUE, TRUE, Landmarks(Angle(170), Angle(70), Degenerate))

-----------------------------------------------------------------------------
(* The state machine *)

Init ==
    /\ ANGLE_DATA \in Catalogs
    /\ db = <<>>
    /\ now = 0
    /\ req = [op |-> "none"]
    /\ resp = [status |-> 0]
    /\ call = [fn |-> "none"]

\* one POST /api/analyze, the store holding fewer than cap rows
AnalyzeRequest(image, mode, pose_name, cap) ==
    /\ Len(db) < cap
    /\ \E out \in {analyze_pose(image, mode, pose_name, db, now)} :
          /\ req' = [op |-> "analyze", image |-> image, mode |-> mode,
                     pose_name |-> pose_name]
          /\ resp' = out.resp
          /\ db' = out.db
    /\ UNCHANGED <<ANGLE_DATA, now, call>>

Analyze ==
    \E image \in UploadImages, mode \in Modes, pose_name \in PoseNameInputs :
        AnalyzeRequest(image, mode, pose_name, MaxDb)

AnalyzeBulk == AnalyzeRequest(BulkImage, "auto", None, MaxHistDb)

History ==
    \E tie \in TieOrders :
        /\ req' = [op |-> "history"]
        /\ resp' = [status |-> 200, body |-> history(db, tie)]
        /\ UNCHANGED <<ANGLE_DATA, db, now, call>>

ListPoses ==
    /\ req' = [op |-> "poses"]
    /\ resp' = [status |-> 200, body |-> list_poses]
    /\ UNCHANGED <<ANGLE_DATA, db, now, call>>

\* the database clock moves on
Tick ==
    /\ now < MaxClock
    /\ now' = now + 1
    /\ UNCHANGED <<ANGLE_DATA, db, req, resp, call>>

\* The handlers on a small store. created_at plays no part in what they do
\* here; the clock moves in SpecHist.
Next == Analyze \/ History \/ ListPoses

Spec == Init /\ [][Next]_vars

\* The history listing on a store that outgrows the limit: one upload, over
\* and over, while the clock moves.
InitHist == Init /\ ANGLE_DATA = CatalogA

NextHist == AnalyzeBulk \/ History \/ Tick

SpecHist == InitHist /\ [][NextHist]_vars

CallComparePose ==
    /\ call.fn = "none"
    /\ \E user_angles \in AngleInputs, pose_name \in PoseNameInputs \cup PoseNames :
           call' = [fn |-> "compare_pose", user_angles |-> user_angles,
                    pose_name |-> pose_name,
                    ret |-> compare_pose(user_angles, pose_name)]
    /\ UNCHANGED <<ANGLE_DATA, db, now, req, resp>>

CallAutoDetectPose ==
    /\ call.fn = "none"
    /\ \E user_angles \in AngleInputs :
           call' = [fn |-> "auto_detect_pose", user_angles |-> user_angles,
                    ret |-> auto_detect_pose(user_angles)]
    /\ UNCHANGED <<ANGLE_DATA, db, now, req, resp>>

CallAnalyzeImage ==
    /\ call.fn = "none"
    /\ \E detected \in BOOLEAN, landmark \in LandmarkInputs,
          pose_name \in (PoseNameInputs \cup PoseNames) \ {""} :
           call' = [fn |-> "analyze_image",
                    results |-> [detected |-> detected, landmark |-> landmark],
                    pose_name |-> pose_name,
                    ret |-> analyze_image([detected |-> detected, landmark |-> landmark],
                                          pose_name)]
    /\ UNCHANGED <<ANGLE_DATA, db, now, req, resp>>

\* Each behaviour is one call of a pose_engine function on one input.
NextEngine == CallComparePose \/ CallAutoDetectPose \/ CallAnalyzeImage

SpecEngine == Init /\ [][NextEngine]_vars

-----------------------------------------------------------------------------
(* Properties of the pose engine, checked under SpecEngine *)

ComparePoseReturned == call.fn = "compare_pose" /\ call.ret.raised = None

\* the measured joints the reference data of the pose has a range for
Comparable(user_angles, data) ==
    {i \in 1..Len(user_angles) : user_angles[i].joint \in DOMAIN data}

\* the place in diffs of the i-th measured joint, a comparable one
DiffIndex(user_angles, data, i) ==
    Cardinality({k \in Comparable(user_angles, data) : k <= i})

\* every hint that can be about a joint: angles lie in 0..180 degrees
AllHints ==
    [joint \in JointSet |->
        {HintText(joint, verb, d) : verb \in {"increase", "decrease"}, d \in 0..180}]

HintsAbout(joint) == AllHints[joint]

HintCount(hints, S) == Cardinality({h \in 1..Len(hints) : hints[h] \in S})

\* how far val lies outside [mn, mx]
Distance(val, mn, mx) ==
    IF val < mn THEN mn - val ELSE IF val > mx THEN val - mx ELSE 0

\* C1: for every measured-angles mapping, the empty one and one sharing no joint
\* with the catalog included, auto_detect_pose returns a pose of POSE_LIST and
\* a score at most compare_pose's score for every catalog pose.
C1_AutoDetectReturnsCatalogPose ==
    call.fn = "auto_detect_pose" =>
        /\ call.ret.pose \in PoseNames
        /\ \A p \in PoseNames :
               RatLeq(call.ret.score, compare_pose(call.user_angles, p).score)

\* C2: for every joint compared by compare_pose: inside the range, bounds
\* included, the deviation is 0 and the joint gets no hint; strictly below min
\* the deviation is min - measured and the joint gets exactly one hint, an
\* "increase"; strictly above max the deviation is measured - max and the joint
\* gets exactly one hint, a "decrease".
C2_DeviationAndHintPerJoint ==
    ComparePoseReturned =>
        LET user_angles == call.user_angles
            data == DataOf(call.pose_name)
        IN \A i \in Comparable(user_angles, data) :
               LET joint == user_angles[i].joint
                   val == user_angles[i].val
                   mn == data[joint].angle_min
                   mx == data[joint].angle_max
                   diff == call.ret.diffs[DiffIndex(user_angles, data, i)]
                   about == HintCount(call.ret.hints, HintsAbout(joint))
               IN /\ (mn <= val /\ val <= mx) => (diff = 0 /\ about = 0)
                  /\ val < mn =>
                        /\ diff = mn - val
                        /\ about = 1
                        /\ HintCount(call.ret.hints,
                                     {HintText(joint, "increase", mn - val)}) = 1
                  /\ val > mx =>
                        /\ diff = val - mx
                        /\ about = 1
                        /\ HintCount(call.ret.hints,
                                     {HintText(joint, "decrease", val - mx)}) = 1

\* compare_pose has returned for a mapping with one joint exactly at min and
\* another strictly below min
C2_Witness ==
    /\ ComparePoseReturned
    /\ LET user_angles == call.user_angles
           data == DataOf(call.pose_name)
       IN /\ \E i \in Comparable(user_angles, data) :
                 user_angles[i].val = data[user_angles[i].joint].angle_min
          /\ \E i \in Comparable(user_angles, data) :
                 user_angles[i].val < data[user_angles[i].joint].angle_min
    /\ call.ret.hints = <<"Left Knee: increase by 10.0">>

RECURSIVE SumOfDistances(_, _, _)
SumOfDistances(S, user_angles, data) ==
    IF S = {} THEN 0
    ELSE LET i == CHOOSE k \in S : TRUE
             r == data[user_angles[i].joint]
         IN Distance(user_angles[i].val, r.angle_min, r.angle_max)
            + SumOfDistances(S \ {i}, user_angles, data)

\* C3: compare_pose's score is the mean of the deviations, zeros included, over
\* exactly the joints both measured and in the pose's reference ranges;
\* measured joints without a range do not change it; with no such joint it is
\* 999.0.
C3_ScoreIsMeanOverComparable ==
    ComparePoseReturned =>
        LET user_angles == call.user_angles
            data == DataOf(call.pose_name)
            cmp == Comparable(user_angles, data)
            score == call.ret.score
            known == SelectSeq(user_angles, LAMBDA item : item.joint \in DOMAIN data)
        IN /\ cmp = {} => score = [num |-> 999, den |-> 1]
           /\ cmp # {} =>
                 score.num * Cardinality(cmp)
                     = score.den * SumOfDistances(cmp, user_angles, data)
           /\ score = compare_pose(known, call.pose_name).score

\* compare_pose has averaged a joint inside its range with one outside it
C3_Witness ==
    /\ ComparePoseReturned
    /\ call.ret.diffs = <<10, 0>>
    /\ call.ret.score = [num |-> 5, den |-> 1]

\* C9: when several catalog poses share the minimum score, auto_detect_pose
\* returns the one that comes first in POSE_LIST.
C9_TieKeepsFirstOfPoseList ==
    call.fn = "auto_detect_pose" =>
        LET score(i) == compare_pose(call.user_angles, POSE_LIST[i]).score
            lowest == {i \in 1..Len(POSE_LIST) :
                          \A j \in 1..Len(POSE_LIST) : RatLeq(score(i), score(j))}
            first == CHOOSE i \in lowest : \A j \in lowest : i <= j
        IN call.ret.pose = POSE_LIST[first]

\* C10: with landmarks detected and a pose name absent or of the catalog,
\* analyze_image returns, for every extracted mapping, the empty one included:
\* the explicit name or else the auto-detected pose, with compare_pose's score
\* and hints for that pose.
C10_AnalyzeImageReturns ==
    (/\ call.fn = "analyze_image"
     /\ call.results.detected
     /\ call.pose_name \in PoseNames \cup {None}) =>
        /\ call.ret.raised = None
        /\ LET user_angles == get_all_angles(call.results.landmark)
               pose == IF call.pose_name # None THEN call.pose_name
                       ELSE auto_detect_pose(user_angles).pose
           IN /\ call.ret.pose_name = pose
              /\ call.ret.score = compare_pose(user_angles, pose).score
              /\ call.ret.hints = compare_pose(user_angles, pose).hints
              /\ call.ret.angles = user_angles

-----------------------------------------------------------------------------
(* Properties of the HTTP handlers, checked under Spec *)

\* the step answers a POST /api/analyze
AnalyzeStep == req'.op = "analyze"

\* the upload cannot be decoded, or shows no body
FailedUpload(r) == ~r.image.decoded \/ ~r.image.results.detected

IsPrefix(s, t) == Len(s) <= Len(t) /\ SubSeq(t, 1, Len(s)) = s

\* C4: every stored attempt has success = true exactly when its score is
\* strictly below 10.0.
C4_SuccessIffScoreBelowTen ==
    \A i \in 1..Len(db) :
        db[i].success <=> (db[i].score.num < 10 * db[i].score.den)

\* the store holds an attempt of score exactly 10.0 and one of score 999.0,
\* neither a success
C4_Witness ==
    \E i, j \in 1..Len(db) :
        /\ db[i].score = [num |-> 10, den |-> 1] /\ ~db[i].success
        /\ db[j].score = [num |-> 999, den |-> 1] /\ ~db[j].success

\* C5: an analyze request whose image cannot be decoded or shows no body is
\* answered 400 and leaves the store as it was.
C5_FailedAnalyzeIs400AndStoresNothing ==
    [][(AnalyzeStep /\ FailedUpload(req')) => (resp'.status = 400 /\ db' = db)]_vars

\* a failed analyze request has been answered on a store that holds attempts
C5_Witness ==
    /\ req.op = "analyze"
    /\ req.image.decoded /\ ~req.image.results.detected
    /\ resp.status = 400
    /\ resp.body.detail = "No pose detected"
    /\ Len(db) > 0

\* C6: unless mode is "manual" and the pose name is non-empty, an analyze
\* request is answered, and stored, as the same request without a pose name.
C6_NameHonoredOnlyInManualMode ==
    [][(AnalyzeStep /\ ~(req'.mode = "manual" /\ req'.pose_name \notin {None, ""})) =>
           LET unnamed == analyze_pose(req'.image, req'.mode, None, db, now)
           IN resp' = unnamed.resp /\ db' = unnamed.db]_vars

\* a request naming a catalog pose outside manual mode got another pose
C6_Witness ==
    /\ req.op = "analyze"
    /\ req.mode # "manual"
    /\ req.pose_name \in PoseNames
    /\ resp.status = 200
    /\ resp.body.pose_name # req.pose_name

\* C8: the store is append-only: an analyze request that returns a result adds
\* exactly one attempt, with the returned pose name and score and the returned
\* hints joined by " | "; no other request changes the store.
C8_StoreIsAppendOnly ==
    [][/\ IsPrefix(db, db')
       /\ (AnalyzeStep /\ resp'.status = 200) =>
             /\ Len(db') = Len(db) + 1
             /\ db'[Len(db')].pose_name = resp'.body.pose_name
             /\ db'[Len(db')].score = resp'.body.score
             /\ db'[Len(db')].hints = Join(" | ", resp'.body.hints)
       /\ ~(AnalyzeStep /\ resp'.status = 200) => db' = db]_vars

\* a second attempt has been stored, with two hints
C8_Witness ==
    /\ req.op = "analyze"
    /\ resp.status = 200
    /\ Len(db) = 2
    /\ Len(resp.body.hints) = 2
    /\ db[2].hints = "Left Knee: increase by 10.0 | Right Knee: decrease by 10.0"

-----------------------------------------------------------------------------
(* Properties of the history listing, checked under SpecHist *)

\* created_at of the stored attempt with this id
CreatedAt(id) == db[id].created_at

\* body holds min(50, rows) distinct attempts of the store, none of the
\* attempts left out created later than one of those returned
MostRecentlyCreated(body) ==
    /\ Len(body) = (IF Len(db) < 50 THEN Len(db) ELSE 50)
    /\ \A i \in 1..Len(body) :
           /\ body[i].id \in 1..Len(db)
           /\ body[i] = PoseAttemptOut(db[body[i].id])
    /\ \A i, j \in 1..Len(body) : body[i].id = body[j].id => i = j
    /\ \A k \in 1..Len(db) :
           (\A i \in 1..Len(body) : body[i].id # k) =>
               \A i \in 1..Len(body) : CreatedAt(k) <= CreatedAt(body[i].id)

\* C7 as stated: a history request returns at most 50 attempts, the most
\* recently created ones, each created strictly later than the one after it.
C7_HistoryStrictlyDescending ==
    req.op = "history" =>
        /\ Len(resp.body) <= 50
        /\ MostRecentlyCreated(resp.body)
        /\ \A i \in 1..(Len(resp.body) - 1) :
               CreatedAt(resp.body[i].id) > CreatedAt(resp.body[i + 1].id)

\* C7 as amended: a history request returns at most 50 attempts, the most
\* recently created ones by created_at, none created earlier than the one
\* after it; attempts of equal created_at come in any order.
C7_HistoryDescending ==
    req.op = "history" =>
        /\ Len(resp.body) <= 50
        /\ MostRecentlyCreated(resp.body)
        /\ \A i \in 1..(Len(resp.body) - 1) :
               CreatedAt(resp.body[i].id) >= CreatedAt(resp.body[i + 1].id)

\* a history request on more than 50 attempts, created at two clock values,
\* has returned 50 of them
C7_Witness ==
    /\ req.op = "history"
    /\ Len(db) > 50
    /\ Len(resp.body) = 50
    /\ CreatedAt(resp.body[1].id) > CreatedAt(resp.body[50].id)
    /\ \E k \in 1..Len(db) : \A i \in 1..50 : resp.body[i].id # k
====
